---- MODULE Spec2Model ----
(***************************************************************************)
(* zimbridge-mda: one run of the pipeline of cmd/mda main                  *)
(*   zimbra.Login -> zimbra.FetchArchive -> gzip/tar -> LMTP delivery      *)
(*   (deliverMails) -> zimbra.TagMails                                     *)
(* together with the remote webmail's tag state, which the next run's      *)
(* fetch query reads.  File names are sequences of one-character strings,  *)
(* so that path.Ext, strings.Split, strings.Cut and strings.TrimLeft are   *)
(* computed, character by character, as the Go library computes them.      *)
(***************************************************************************)
EXTENDS Integers, Sequences, FiniteSets, TLC

(***************************************************************************)
(* Bounds of the model.                                                    *)
(***************************************************************************)
\* most request/response round trips of one Login (the code has no bound)
MaxSteps == 3
\* most tar headers one archive stream yields before EOF
MaxEntries == 3

\* most elements directly under the root of a document
MaxBlocks == 2

\* most fields of the form of a document
MaxInputs == 2

\* most bytes of a message given to AddMail
MaxBody == 2

\* most calls of AddMail
MaxMails == 2

\* most calls of AddFolder
MaxFolderCalls == 3

(***************************************************************************)
(* Strings as character sequences.                                         *)
(***************************************************************************)
\* strings.Index(s, c) for a one-character c: first position, 0 when absent
Index(s, c) ==
  IF \E i \in 1..Len(s) : s[i] = c
    THEN CHOOSE i \in 1..Len(s) : s[i] = c /\ \A j \in 1..(i - 1) : s[j] # c
    ELSE 0

\* strings.HasPrefix(s, p)
HasPrefix(s, p) ==
  /\ Len(p) <= Len(s)
  /\ SubSeq(s, 1, Len(p)) = p

\* strings.Split(s, sep) for a one-character sep: always at least one part
RECURSIVE Split(_, _)
Split(s, sep) ==
  LET i == Index(s, sep) IN
    IF i = 0 THEN <<s>>
    ELSE <<SubSeq(s, 1, i - 1)>> \o Split(SubSeq(s, i + 1, Len(s)), sep)

\* strings.Cut(s, sep): the text before and after the first sep, and found
Cut(s, sep) ==
  LET i == Index(s, sep) IN
    IF i = 0 THEN [before |-> s, after |-> <<>>, found |-> FALSE]
    ELSE [before |-> SubSeq(s, 1, i - 1),
          after |-> SubSeq(s, i + 1, Len(s)),
          found |-> TRUE]

\* strings.TrimLeft(s, c) for a one-character cutset
RECURSIVE TrimLeft(_, _)
TrimLeft(s, c) ==
  IF s # <<>> /\ Head(s) = c THEN TrimLeft(Tail(s), c) ELSE s

\* strings.Join(parts, sep)
RECURSIVE Join(_, _)
Join(parts, sep) ==
  IF parts = <<>> THEN <<>>
  ELSE IF Len(parts) = 1 THEN parts[1]
  ELSE parts[1] \o <<sep>> \o Join(Tail(parts), sep)

\* path.Ext(name): the suffix from the last '.' of the last path element
RECURSIVE ExtFrom(_, _)
ExtFrom(name, i) ==
  IF i = 0 \/ name[i] = "/" THEN <<>>
  ELSE IF name[i] = "." THEN SubSeq(name, i, Len(name))
  ELSE ExtFrom(name, i - 1)

Ext(name) == ExtFrom(name, Len(name))

(***************************************************************************)
(* Program constants and the values the environment can answer with.       *)
(***************************************************************************)
\* the host Login compares against, and the URL of its first GET
TargetHost == "mail.etu.cyu.fr"

StartURL == [host |-> TargetHost, path |-> "/"]

\* content-type headers, as the header's leading media type and its parameters
TextHtml == <<"text/html">>

CompressedTar == <<"application/x-compressed-tar">>

CtHtml == <<"text/html", "; charset=UTF-8">>

CtJson == <<"application/json">>

\* tar.TypeReg and tar.TypeDir
TypeReg == "0"

TypeDir == "5"

\* the extension of a mail entry
EmlExt == <<".", "e", "m", "l">>

\* config.Address
Address == "e-user@etu.cyu.fr"

\* the values config.Tag is run with: no tag, or a tag name
TagValues == {"", "seen"}

\* a transport error of the HTTP client: no response at all
NetErr == [url |-> [host |-> "", path |-> ""], status |-> 0, ct |-> <<>>]

\* final URLs (after redirects) the SSO chain can answer from
RespURLs ==
  { StartURL,
    [host |-> "auth.u-cergy.fr", path |-> "/login"],
    [host |-> "idp.u-cergy.fr", path |-> "/sso"] }

\* responses to a login step
LoginResponses ==
  [url : RespURLs, status : {200, 403}, ct : {CtHtml, CtJson}]

\* the action attribute of the form a login page carries: an absolute URL
\* or a path relative to the page; NoForm is a page without a usable form
NoForm == [kind |-> "none", host |-> "", path |-> ""]

FormActions ==
  { [kind |-> "abs", host |-> "auth.u-cergy.fr", path |-> "/login"],
    [kind |-> "abs", host |-> "idp.u-cergy.fr", path |-> "/sso"],
    [kind |-> "rel", host |-> "", path |-> "/sso"] }

\* responses to the archive request
FetchResponses ==
  [url : {StartURL}, status : {200, 204, 404}, ct : {CompressedTar, CtHtml}]

\* file names of archive entries
NameMail1 == <<"a", "/", "b", "/", "0", "0", "0", "1", "2", "3", "-", "x", ".", "e", "m", "l">>

NameMail1Other == <<"c", "/", "0", "0", "0", "1", "2", "3", "-", "x", ".", "e", "m", "l">>

NameMail2 == <<"a", "/", "0", "7", "-", "y", "-", "z", ".", "e", "m", "l">>

NameNoDash == <<"a", "/", "b", "/", "a", "b", "c", ".", "e", "m", "l">>

NameZeros == <<"a", "/", "0", "0", "-", "w", ".", "e", "m", "l">>

NameMeta == <<"a", "/", "0", "7", "-", "y", ".", "m", "e", "t", "a">>

NameDir == <<"a", "/", "b", "/">>

\* the entries the remote store can put in an archive: the tar header's type
\* and name, the message bytes, and mid, the id the remote store knows the
\* message by (empty for entries that are no message)
Entries ==
  { [typeflag |-> TypeReg, name |-> NameMail1, body |-> "m1", mid |-> <<"1", "2", "3">>],
    [typeflag |-> TypeReg, name |-> NameMail1Other, body |-> "m2", mid |-> <<"1", "2", "3">>],
    [typeflag |-> TypeReg, name |-> NameMail2, body |-> "m3", mid |-> <<"7">>],
    [typeflag |-> TypeReg, name |-> NameNoDash, body |-> "m4", mid |-> <<"9">>],
    [typeflag |-> TypeReg, name |-> NameZeros, body |-> "m5", mid |-> <<"5">>],
    [typeflag |-> TypeReg, name |-> NameMeta, body |-> "meta", mid |-> <<>>],
    [typeflag |-> TypeDir, name |-> NameDir, body |-> "", mid |-> <<>>] }

NoEntry == [typeflag |-> "", name |-> <<>>, body |-> "", mid |-> <<>>]

\* responses to the marking request
TagResponses ==
  [url : {StartURL}, status : {200, 500}, ct : {CtJson}] \cup {NetErr}

\* the response variable before any response
NoResp == [url |-> [host |-> "", path |-> ""], status |-> -1, ct |-> <<>>]

\* no first call of deliverMails recorded
NoFirst == [called |-> FALSE, archive |-> <<>>, ids |-> <<>>]

\* config.Username and config.Password
Username == "e-user"

Password == "secret"

\* the action attribute of a form that has none: the empty reference
NoAction == [kind |-> "empty", host |-> "", path |-> ""]

\* an action attribute that url.Parse rejects
BadAction == [kind |-> "bad", host |-> "", path |-> "[::1"]

\* method attributes, character by character; <<>> is a form without one
MethodPOST == <<"P", "O", "S", "T">>

MethodPost == <<"P", "o", "s", "t">>

MethodGet == <<"g", "e", "t">>

Methods == {MethodPOST, MethodPost, MethodGet, <<>>}

\* a node of the parsed document (html.Node): its Type, its Data, the
\* attributes the code reads (typ is "absent" without a type attribute)
\* and its children in order
Node(ntype, data, method, action, typ, name, value, kids) ==
  [ntype |-> ntype, data |-> data, method |-> method, action |-> action,
   typ |-> typ, name |-> name, value |-> value, kids |-> kids]

Input(typ, name, value) ==
  Node("element", "input", <<>>, NoAction, typ, name, value, <<>>)

Form(method, action, kids) ==
  Node("element", "form", method, action, "absent", "", "", kids)

Div(kids) == Node("element", "div", <<>>, NoAction, "absent", "", "", kids)

\* a text node whose text is the word form
TextForm == Node("text", "form", <<>>, NoAction, "absent", "", "", <<>>)

\* the input elements of the pages
Inputs ==
  { Input("hidden", "lt", "tok1"),
    Input("hidden", "lt", "tok2"),
    Input("hidden", "", "tok1"),
    Input("hidden", "execution", ""),
    Input("submit", "submit", "LOGIN"),
    Input("text", "username", ""),
    Input("absent", "username", "typed"),
    Input("text", "q", "terms"),
    Input("password", "password", ""),
    Input("password", "pin", ""),
    Input("checkbox", "remember", "on") }

\* the sequences over S of length 0 to n
SeqsUpTo(S, n) == UNION { [1..k -> S] : k \in 0..n }

\* the children of a form whose fields are looked at: inputs, also inside
\* a div
FieldNodes == Inputs \cup { Div(<<Input("hidden", "lt", "tok1")>>) }

\* forms with every method and action around one hidden input, a form
\* inside another element, a form inside a form without POST, and
\* elements without any form
Blocks ==
  { Form(m, a, <<Input("hidden", "lt", "tok1")>>) :
      m \in Methods, a \in FormActions \cup {NoAction, BadAction} }
  \cup
  { Div(<<Form(MethodPost, [kind |-> "rel", host |-> "", path |-> "/sso"],
              <<Input("submit", "submit", "LOGIN")>>)>>),
    Form(MethodGet, NoAction,
         <<Input("text", "q", "terms"),
           Form(MethodPOST, [kind |-> "rel", host |-> "", path |-> "/sso"],
                <<Input("hidden", "lt", "tok2")>>)>>),
    Div(<<TextForm>>),
    TextForm }

\* the documents html.Parse returns: a root with up to MaxBlocks blocks, or
\* with one POST form of up to MaxInputs fields
Documents ==
  { Node("document", "", <<>>, NoAction, "absent", "", "", ks) :
      ks \in SeqsUpTo(Blocks, MaxBlocks) }
  \cup
  { Node("document", "", <<>>, NoAction, "absent", "", "",
         <<Form(MethodPOST, NoAction, ks)>>) :
      ks \in SeqsUpTo(FieldNodes, MaxInputs) }

\* the responses extractFormInfo is given: the final URL and the document
Pages == [url : RespURLs, doc : Documents]

NoPage == [url |-> [host |-> "", path |-> ""], doc |-> TextForm]

\* url.Values without any field
NoValues == [n \in {} |-> <<>>]

\* the result of formInfo when no form is found
NotFound == [action |-> NoAction, inputs |-> NoValues, err |-> TRUE]

\* the result of extractFormInfo before it has returned; form is what its
\* call of formInfo returned
NoExtract ==
  [url |-> [host |-> "", path |-> ""], inputs |-> NoValues, err |-> FALSE,
   form |-> NotFound, returned |-> FALSE]

\* path elements, character by character: the maildir Open is given, its
\* three subdirectories and the file that marks a folder
Top == <<"M", "a", "i", "l">>

Tmp == <<"t", "m", "p">>

New == <<"n", "e", "w">>

Cur == <<"c", "u", "r">>

Sentinel == <<"m", "a", "i", "l", "d", "i", "r", "f", "o", "l", "d", "e", "r">>

\* the folder names AddFolder is called with; none holds a separator
FolderNames == {<<"a">>, <<"b">>, <<>>}

\* the names os.CreateTemp can give a file: the pattern and random digits
TmpNames ==
  { <<"z", "i", "m", "b", "r", "i", "d", "g", "e", "-", "m", "d", "a", "1">>,
    <<"z", "i", "m", "b", "r", "i", "d", "g", "e", "-", "m", "d", "a", "2">> }

\* the message streams AddMail is given: 1 to MaxBody bytes
Messages == UNION { [1..k -> {"x", "y"}] : k \in 1..MaxBody }

\* AddFolder before its first call
NoFolderRet ==
  [md |-> [path |-> <<>>, names |-> <<>>], folder |-> <<>>, path |-> <<>>,
   err |-> FALSE, returned |-> FALSE]

\* AddMail before its first call
NoAddMail ==
  [pc |-> "idle", msg |-> <<>>, rest |-> <<>>, tmp |-> <<>>, before |-> {},
   err |-> FALSE, returned |-> FALSE]

\* the value of a function's result before the function has returned
NoRet == [ids |-> <<>>, err |-> FALSE, returned |-> FALSE]

(***************************************************************************)
(* State.                                                                  *)
(***************************************************************************)
VARIABLES
  pc,          \* position of main: the next call it makes
  exitCode,    \* -1 while running, then the argument of os.Exit / return
  failed,      \* the stage whose error ended the run, "" when none
  Tag,         \* config.Tag
  resp,        \* Login: the most recent response (resp)
  trips,       \* Login: request/response round trips made so far
  firstTarget, \* Login: the round trip that first answered from TargetHost
  visited,     \* Login: URLs requested so far
  repeated,    \* Login: a request went to a URL already in visited
  fetchReq,    \* FetchArchive: the requests it sent (their query term)
  fetchResp,   \* FetchArchive: the response
  archive,     \* main: "unset", "nil" (absent stream) or "stream"
  lmtpOpen,    \* main: the LMTP connection was dialled
  hdr,         \* deliverMails: the header of the entry being delivered
  consumed,    \* deliverMails: the entries tr.Next() has yielded
  ids,         \* deliverMails: the ids accumulated so far
  ret,         \* deliverMails: its return value
  lmtp,        \* the commands the LMTP server has received
  tagReqs,     \* TagMails: the marking requests sent
  tagResp,     \* TagMails: the response to its request
  remoteTags,  \* the remote store: the <<mid, tag>> pairs set so far
  first,       \* a caller of deliverMails: what its first call was given
               \* and returned, NoFirst until it calls a second time
  page,        \* extractFormInfo: the response it is given (URL, document)
  extracted,   \* extractFormInfo: its return value
  dirs,        \* the file system: the paths of its directories
  files,       \* the file system: its files, each a path and a content
  mds,         \* maildir: the *Maildir values Open and AddFolder returned
  folderRet,   \* Maildir.AddFolder: its last call and what it returned
  folderCalls, \* Maildir.AddFolder: calls made so far
  am,          \* Maildir.AddMail: the position and locals of the call
  mailCalls,   \* Maildir.AddMail: calls made so far
  linked       \* the messages os.Link has put in new, by path

vars ==
  <<pc, exitCode, failed, Tag, resp, trips, firstTarget, visited, repeated,
    fetchReq, fetchResp, archive, lmtpOpen, hdr, consumed, ids, ret, lmtp,
    tagReqs, tagResp, remoteTags, first, page, extracted,
    dirs, files, mds, folderRet, folderCalls, am, mailCalls, linked>>

loginVars == <<resp, trips, firstTarget, visited, repeated>>

fetchVars == <<fetchReq, fetchResp, archive>>

deliverVars == <<lmtpOpen, hdr, consumed, ids, ret, lmtp>>

markVars == <<tagReqs, tagResp, remoteTags>>

formVars == <<page, extracted>>

maildirVars ==
  <<dirs, files, mds, folderRet, folderCalls, am, mailCalls, linked>>

\* the state of the functions that are also run on their own
libVars == <<formVars, maildirVars>>

\* extractFormInfo has not been called
FormIdle ==
  /\ page = NoPage
  /\ extracted = NoExtract

\* maildir.Open(Top) has returned a *Maildir: Top has tmp, new and cur and
\* no maildirfolder; nothing else has been called
MaildirOpened ==
  /\ dirs = {<<>>, <<Top>>, <<Top, Tmp>>, <<Top, New>>, <<Top, Cur>>}
  /\ files = {}
  /\ mds = {[path |-> <<Top>>, names |-> <<>>]}
  /\ folderRet = NoFolderRet
  /\ folderCalls = 0
  /\ am = NoAddMail
  /\ mailCalls = 0
  /\ linked = {}

\* none of these functions has been called
LibIdle == FormIdle /\ MaildirOpened

\* the state of a run before main's first call
Fresh ==
  /\ pc = "login"
  /\ exitCode = -1
  /\ failed = ""
  /\ resp = NetErr
  /\ trips = 0
  /\ firstTarget = 0
  /\ visited = {}
  /\ repeated = FALSE
  /\ fetchReq = <<>>
  /\ fetchResp = NetErr
  /\ archive = "unset"
  /\ lmtpOpen = FALSE
  /\ hdr = NoEntry
  /\ consumed = <<>>
  /\ ids = <<>>
  /\ ret = NoRet
  /\ lmtp = <<>>
  /\ tagReqs = <<>>
  /\ tagResp = NoResp

Init ==
  /\ Fresh
  /\ Tag \in TagValues
  /\ remoteTags = {}
  /\ first = NoFirst
  /\ LibIdle

\* os.Exit(code) of main, after logging the error of `stage`
Exit(code, stage) ==
  /\ pc' = "exit"
  /\ exitCode' = code
  /\ failed' = stage

(***************************************************************************)
(* zimbra.Login                                                            *)
(***************************************************************************)
\* LoginRespOK without the content-type check: a faulty variant
LoginRespOKNoContentType(r) ==
  /\ r # NetErr
  /\ r.status = 200

\* the checks made on the response of every login request: no transport
\* error, status 200, content-type starting with text/html
LoginRespOK(r) ==
  /\ r # NetErr
  /\ r.status = 200
  /\ HasPrefix(r.ct, TextHtml)

\* LoopCond comparing against another host of the chain: a faulty variant
LoopCondOtherHost(r) == r.url.host # "idp.u-cergy.fr"

\* LoopCond that goes on from every successful response: a faulty variant
LoopCondAlways(r) == TRUE

\* the condition of the login loop: the response is not yet on the mail host
LoopCond(r) == r.url.host # TargetHost

\* ResolveReference leaving a relative reference as it is: a faulty variant
ResolveReferenceNone(base, ref) == [host |-> ref.host, path |-> ref.path]

\* resp.Request.URL.ResolveReference(parsedAction): an absolute reference
\* stands for itself, an empty one for the base, a path is put on the base
ResolveReference(base, ref) ==
  IF ref.kind = "abs"
    THEN [host |-> ref.host, path |-> ref.path]
    ELSE IF ref.kind = "empty"
      THEN base
      ELSE [host |-> base.host, path |-> ref.path]

\* the bookkeeping of one request to url answered by r
Request(url, r) ==
  /\ resp' = r
  /\ trips' = trips + 1
  /\ visited' = visited \cup {url}
  /\ repeated' = (repeated \/ url \in visited)
  /\ firstTarget' =
       IF firstTarget = 0 /\ r.url.host = TargetHost THEN trips + 1 ELSE firstTarget

\* what Login does with the response r of a request
AfterLoginRequest(r) ==
  IF LoginRespOK(r)
    THEN pc' = "loginLoop" /\ UNCHANGED <<exitCode, failed>>
    ELSE Exit(1, "login")

\* client.Get("https://mail.etu.cyu.fr/") and the checks of its response
LoginGet ==
  /\ pc = "login"
  /\ \E r \in LoginResponses \cup {NetErr} :
       /\ Request(StartURL, r)
       /\ AfterLoginRequest(r)
  /\ UNCHANGED <<Tag, first, libVars, fetchVars, deliverVars, markVars>>

\* one turn of the loop: extract the form of the last response, POST it,
\* check the response
LoginStep ==
  /\ pc = "loginLoop"
  /\ LoopCond(resp)
  /\ \E f \in FormActions \cup {NoForm} :
       IF f = NoForm
         THEN /\ Exit(1, "login")
              /\ UNCHANGED loginVars
         ELSE /\ trips < MaxSteps
              /\ \E r \in LoginResponses \cup {NetErr} :
                   /\ Request(ResolveReference(resp.url, f), r)
                   /\ AfterLoginRequest(r)
  /\ UNCHANGED <<Tag, first, libVars, fetchVars, deliverVars, markVars>>

\* the loop ends and Login returns nil; main goes on to FetchArchive
LoginReturn ==
  /\ pc = "loginLoop"
  /\ ~LoopCond(resp)
  /\ pc' = "fetch"
  /\ visited' = {}
  /\ repeated' = FALSE
  /\ UNCHANGED <<exitCode, failed, Tag, first, libVars, resp, trips, firstTarget,
                 fetchVars, deliverVars, markVars>>

(***************************************************************************)
(* zimbra.FetchArchive and main's use of its result                        *)
(***************************************************************************)
\* the query term of the archive URL: the messages not carrying the tag
NoQuery == [notTag |-> ""]

\* FetchQuery that never adds the exclusion term: a faulty variant
FetchQueryNoTag(tag) == NoQuery

FetchQuery(tag) ==
  IF tag # "" THEN [notTag |-> tag] ELSE NoQuery

\* FetchOutcome without the 204 case: a faulty variant
FetchOutcomeNo204(r) ==
  IF r = NetErr THEN [stream |-> "nil", err |-> TRUE]
  ELSE IF r.status # 200 THEN [stream |-> "nil", err |-> TRUE]
  ELSE IF ~HasPrefix(r.ct, CompressedTar) THEN [stream |-> "nil", err |-> TRUE]
  ELSE [stream |-> "stream", err |-> FALSE]

\* FetchOutcome without the content-type check: a faulty variant
FetchOutcomeAnyType(r) ==
  IF r = NetErr THEN [stream |-> "nil", err |-> TRUE]
  ELSE IF r.status = 204 THEN [stream |-> "nil", err |-> FALSE]
  ELSE IF r.status # 200 THEN [stream |-> "nil", err |-> TRUE]
  ELSE [stream |-> "stream", err |-> FALSE]

\* the result of FetchArchive for response r: the stream and the error
FetchOutcome(r) ==
  IF r = NetErr THEN [stream |-> "nil", err |-> TRUE]
  ELSE IF r.status = 204 THEN [stream |-> "nil", err |-> FALSE]
  ELSE IF r.status # 200 THEN [stream |-> "nil", err |-> TRUE]
  ELSE IF ~HasPrefix(r.ct, CompressedTar) THEN [stream |-> "nil", err |-> TRUE]
  ELSE [stream |-> "stream", err |-> FALSE]

\* AfterFetch without the error check: a faulty variant
AfterFetchNoErrCheck(out) ==
  IF out.stream = "nil" /\ ~out.err THEN Exit(0, "")
  ELSE pc' = "gunzip" /\ UNCHANGED <<exitCode, failed>>

\* main after FetchArchive: exit 1 on error, exit 0 on an absent stream
AfterFetch(out) ==
  IF out.err THEN Exit(1, "fetch")
  ELSE IF out.stream = "nil" THEN Exit(0, "")
  ELSE pc' = "gunzip" /\ UNCHANGED <<exitCode, failed>>

FetchArchive ==
  /\ pc = "fetch"
  /\ fetchReq' = Append(fetchReq, FetchQuery(Tag))
  /\ \E r \in FetchResponses \cup {NetErr} :
       /\ fetchResp' = r
       /\ archive' = FetchOutcome(r).stream
       /\ AfterFetch(FetchOutcome(r))
  /\ UNCHANGED <<Tag, first, libVars, loginVars, deliverVars, markVars>>

\* gzip.NewReader(archive): reads the gzip header
Gunzip ==
  /\ pc = "gunzip"
  /\ \/ pc' = "dial" /\ UNCHANGED <<exitCode, failed>>
     \/ Exit(1, "gunzip")
  /\ UNCHANGED <<Tag, first, libVars, loginVars, fetchVars, deliverVars, markVars>>

\* net.Dial("unix", config.LMTPServer) and smtp.NewClientLMTP
Dial ==
  /\ pc = "dial"
  /\ \/ /\ lmtpOpen' = TRUE
        /\ pc' = "next"
        /\ UNCHANGED <<exitCode, failed>>
     \/ /\ Exit(1, "dial")
        /\ UNCHANGED lmtpOpen
  /\ UNCHANGED <<Tag, first, libVars, loginVars, fetchVars, hdr, consumed, ids, ret, lmtp, markVars>>

(***************************************************************************)
(* deliverMails and main's use of its result                               *)
(***************************************************************************)
\* the entries the remote store serves for the query q: all of them, or
\* those whose message does not carry the tag the query excludes
Served(q) ==
  { e \in Entries :
      \/ q = NoQuery
      \/ e.mid = <<>>
      \/ <<e.mid, q.notTag>> \notin remoteTags }

\* DeriveId cutting the whole path instead of its last segment: a faulty
\* variant
DeriveIdWholePath(name) ==
  LET cut == Cut(name, "-")
  IN  [found |-> cut.found, id |-> TrimLeft(cut.before, "0")]

\* DeriveId taking a file name without '-' whole as the id: a faulty variant
DeriveIdAlwaysFound(name) ==
  LET parts == Split(name, "/")
      file == parts[Len(parts)]
      cut == Cut(file, "-")
  IN  [found |-> TRUE, id |-> TrimLeft(cut.before, "0")]

\* the id of an entry, from its name: the text of the last path segment
\* before its first '-', without leading zeros; found is false without '-'
DeriveId(name) ==
  LET parts == Split(name, "/")
      file == parts[Len(parts)]
      cut == Cut(file, "-")
  IN  [found |-> cut.found, id |-> TrimLeft(cut.before, "0")]

\* AfterDeliver without the error check: a faulty variant
AfterDeliverNoErrCheck(r) ==
  IF Tag # "" THEN pc' = "tag" /\ UNCHANGED <<exitCode, failed>>
  ELSE Exit(0, "")

\* main after deliverMails returned r: exit 1 on error, TagMails when a tag
\* is configured, else the end of main
AfterDeliver(r) ==
  IF r.err THEN Exit(1, "deliver")
  ELSE IF Tag # "" THEN pc' = "tag" /\ UNCHANGED <<exitCode, failed>>
  ELSE Exit(0, "")

\* ReturnError handing back the ids accumulated so far: a faulty variant
ReturnErrorPartial ==
  /\ ret' = [ids |-> ids, err |-> TRUE, returned |-> TRUE]
  /\ AfterDeliver([ids |-> ids, err |-> TRUE, returned |-> TRUE])

\* return nil, err
ReturnError ==
  /\ ret' = [ids |-> <<>>, err |-> TRUE, returned |-> TRUE]
  /\ AfterDeliver([ids |-> <<>>, err |-> TRUE, returned |-> TRUE])

\* s without the later occurrences of its elements
RECURSIVE Dedup(_)
Dedup(s) ==
  IF s = <<>> THEN <<>>
  ELSE LET r == Dedup(SubSeq(s, 1, Len(s) - 1)) IN
         IF \E j \in 1..Len(r) : r[j] = s[Len(s)] THEN r
         ELSE Append(r, s[Len(s)])

\* ReturnIds handing back every id once: a faulty variant
ReturnIdsDedup ==
  /\ ret' = [ids |-> Dedup(ids), err |-> FALSE, returned |-> TRUE]
  /\ AfterDeliver([ids |-> Dedup(ids), err |-> FALSE, returned |-> TRUE])

\* return ids, nil
ReturnIds ==
  /\ ret' = [ids |-> ids, err |-> FALSE, returned |-> TRUE]
  /\ AfterDeliver([ids |-> ids, err |-> FALSE, returned |-> TRUE])

\* Deliverable looking at the type only: a faulty variant
DeliverableAnyExt(e) == e.typeflag = TypeReg

\* the two filters of the loop: a regular file whose extension is .eml
Deliverable(e) == e.typeflag = TypeReg /\ Ext(e.name) = EmlExt

\* the folder of the sink the entry e is delivered into: the LMTP session
\* names the recipient and nothing of the entry's path, so every message
\* goes to the recipient's mailbox itself, which is the empty folder path
DeliveryFolder(e) == <<>>

\* the LMTP server receives a command; ok is its answer
Command(cmd, arg, ok) ==
  lmtp' = Append(lmtp, [cmd |-> cmd, arg |-> arg, ok |-> ok])

\* tr.Next() and the two filters: end of archive, a broken archive, or a
\* header that is skipped or starts a delivery
TarNext ==
  /\ pc = "next"
  /\ \/ /\ ReturnIds
        /\ UNCHANGED <<hdr, consumed>>
     \/ /\ ReturnError
        /\ UNCHANGED <<hdr, consumed>>
     \/ /\ Len(consumed) < MaxEntries
        /\ \E e \in Served(fetchReq[Len(fetchReq)]) :
             /\ consumed' = Append(consumed, e)
             /\ IF Deliverable(e)
                  THEN pc' = "mail" /\ hdr' = e
                  ELSE pc' = "next" /\ hdr' = hdr
        /\ UNCHANGED <<exitCode, failed, ret>>
  /\ UNCHANGED <<Tag, first, libVars, loginVars, fetchVars, lmtpOpen, ids, lmtp, markVars>>

\* client.Mail("", nil)
Mail ==
  /\ pc = "mail"
  /\ \/ /\ Command("MAIL", "", TRUE)
        /\ pc' = "rcpt"
        /\ UNCHANGED <<exitCode, failed, ret>>
     \/ /\ Command("MAIL", "", FALSE)
        /\ ReturnError
  /\ UNCHANGED <<Tag, first, libVars, loginVars, fetchVars, lmtpOpen, hdr, consumed, ids, markVars>>

\* client.Rcpt(config.Address, nil)
Rcpt ==
  /\ pc = "rcpt"
  /\ \/ /\ Command("RCPT", Address, TRUE)
        /\ pc' = "data"
        /\ UNCHANGED <<exitCode, failed, ret>>
     \/ /\ Command("RCPT", Address, FALSE)
        /\ ReturnError
  /\ UNCHANGED <<Tag, first, libVars, loginVars, fetchVars, lmtpOpen, hdr, consumed, ids, markVars>>

\* client.LMTPData(callback)
Data ==
  /\ pc = "data"
  /\ \/ /\ Command("DATA", "", TRUE)
        /\ pc' = "copy"
        /\ UNCHANGED <<exitCode, failed, ret>>
     \/ /\ Command("DATA", "", FALSE)
        /\ ReturnError
  /\ UNCHANGED <<Tag, first, libVars, loginVars, fetchVars, lmtpOpen, hdr, consumed, ids, markVars>>

\* CopyClose returning an error when the server answers the end of data
\* with an error status for the recipient: a faulty variant
CopyCloseStatusFatal ==
  /\ pc = "copy"
  /\ \/ /\ lmtp' = lmtp \o <<[cmd |-> "BODY", arg |-> hdr.body, ok |-> TRUE],
                             [cmd |-> "END", arg |-> "250", ok |-> TRUE]>>
        /\ pc' = "reset"
        /\ UNCHANGED <<exitCode, failed, ret>>
     \/ /\ lmtp' = lmtp \o <<[cmd |-> "BODY", arg |-> hdr.body, ok |-> TRUE],
                             [cmd |-> "END", arg |-> "550", ok |-> TRUE]>>
        /\ ReturnError
     \/ /\ lmtp' = lmtp \o <<[cmd |-> "BODY", arg |-> hdr.body, ok |-> FALSE],
                             [cmd |-> "END", arg |-> "", ok |-> TRUE]>>
        /\ ReturnError
     \/ /\ lmtp' = lmtp \o <<[cmd |-> "BODY", arg |-> hdr.body, ok |-> TRUE],
                             [cmd |-> "END", arg |-> "", ok |-> FALSE]>>
        /\ ReturnError
     \/ /\ lmtp' = lmtp \o <<[cmd |-> "BODY", arg |-> hdr.body, ok |-> FALSE]>>
        /\ ReturnError
  /\ UNCHANGED <<Tag, first, libVars, loginVars, fetchVars, lmtpOpen, hdr, consumed, ids, markVars>>

\* io.Copy(data, tr), then data.Close() whatever the copy did, then the two
\* error checks; the per-recipient status the server answers the end of
\* data with goes to the callback, which logs it.  A copy that fails while
\* reading the archive is still followed by the end of data, which the
\* server receives; a copy that fails while writing to the connection is
\* followed by nothing the server receives
CopyClose ==
  /\ pc = "copy"
  /\ \/ \E status \in {"250", "550"} :
          /\ lmtp' = lmtp \o <<[cmd |-> "BODY", arg |-> hdr.body, ok |-> TRUE],
                               [cmd |-> "END", arg |-> status, ok |-> TRUE]>>
          /\ pc' = "reset"
          /\ UNCHANGED <<exitCode, failed, ret>>
     \/ /\ lmtp' = lmtp \o <<[cmd |-> "BODY", arg |-> hdr.body, ok |-> FALSE],
                             [cmd |-> "END", arg |-> "", ok |-> TRUE]>>
        /\ ReturnError
     \/ /\ lmtp' = lmtp \o <<[cmd |-> "BODY", arg |-> hdr.body, ok |-> TRUE],
                             [cmd |-> "END", arg |-> "", ok |-> FALSE]>>
        /\ ReturnError
     \/ /\ lmtp' = lmtp \o <<[cmd |-> "BODY", arg |-> hdr.body, ok |-> FALSE]>>
        /\ ReturnError
  /\ UNCHANGED <<Tag, first, libVars, loginVars, fetchVars, lmtpOpen, hdr, consumed, ids, markVars>>

\* client.Reset(), then the id of the delivered entry is derived from its
\* name and appended; an entry without '-' in its file name adds no id
Reset ==
  /\ pc = "reset"
  /\ \/ /\ Command("RSET", "", TRUE)
        /\ ids' = IF DeriveId(hdr.name).found
                    THEN Append(ids, DeriveId(hdr.name).id)
                    ELSE ids
        /\ hdr' = NoEntry
        /\ pc' = "next"
        /\ UNCHANGED <<exitCode, failed, ret>>
     \/ /\ Command("RSET", "", FALSE)
        /\ ReturnError
        /\ UNCHANGED <<hdr, ids>>
  /\ UNCHANGED <<Tag, first, libVars, loginVars, fetchVars, lmtpOpen, consumed, markVars>>

(***************************************************************************)
(* deliverMails called a second time on the same archive: a caller keeps   *)
(* what the first call read and returned in `first`, and calls again; the  *)
(* LMTP session and its server stay as the first call left them.           *)
(***************************************************************************)
\* DeliverStart keeping the ids of an earlier call, as a variable of the
\* package would: a faulty variant
DeliverStartKeep == ids' = ids

\* var ids []string: every call starts with no ids
DeliverStart == ids' = <<>>

\* the second call: the locals of deliverMails start afresh
Again ==
  /\ pc \in {"tag", "exit"}
  /\ ret.returned
  /\ ~ret.err
  /\ ~first.called
  /\ first' = [called |-> TRUE, archive |-> consumed, ids |-> ret.ids]
  /\ DeliverStart
  /\ hdr' = NoEntry
  /\ consumed' = <<>>
  /\ ret' = NoRet
  /\ pc' = "next"
  /\ exitCode' = -1
  /\ failed' = ""
  /\ UNCHANGED <<Tag, libVars, loginVars, fetchVars, lmtpOpen, lmtp, markVars>>

\* tr.Next() of the first call
TarNextFirst == ~first.called /\ TarNext

\* tr.Next() and the two filters in the second call: the archive yields
\* the entries it yielded the first time, then its end
TarNextAgain ==
  /\ pc = "next"
  /\ first.called
  /\ IF Len(consumed) = Len(first.archive)
       THEN /\ ReturnIds
            /\ UNCHANGED <<hdr, consumed>>
       ELSE /\ consumed' = Append(consumed, first.archive[Len(consumed) + 1])
            /\ IF Deliverable(first.archive[Len(consumed) + 1])
                 THEN pc' = "mail" /\ hdr' = first.archive[Len(consumed) + 1]
                 ELSE pc' = "next" /\ hdr' = hdr
            /\ UNCHANGED <<exitCode, failed, ret>>
  /\ UNCHANGED <<Tag, first, libVars, loginVars, fetchVars, lmtpOpen, ids, lmtp, markVars>>

(***************************************************************************)
(* zimbra.TagMails and main's use of its result                            *)
(***************************************************************************)
\* the set of the elements of a sequence
Range(s) == { s[i] : i \in 1..Len(s) }

\* the MsgActionRequest: op tag, tn the tag, id the ids joined by ','
TagRequest(tag, idList) == [op |-> "tag", tn |-> tag, id |-> Join(idList, ",")]

\* the remote store after it has carried out request req
Tagged(req) ==
  remoteTags \cup { <<m, req.tn>> : m \in Range(Split(req.id, ",")) }

\* TagOK taking every response for a success: a faulty variant
TagOKAnyStatus(r) == r # NetErr

\* the checks of TagMails on the response: no transport error, status 200
TagOK(r) == r # NetErr /\ r.status = 200

\* TagMails(client, ids): one POST; only status 200 is a success, and the
\* remote store sets the tag when it answers 200
TagMails ==
  /\ pc = "tag"
  /\ tagReqs' = Append(tagReqs, TagRequest(Tag, ret.ids))
  /\ \E r \in TagResponses :
       /\ tagResp' = r
       /\ remoteTags' = IF r.status = 200
                          THEN Tagged(TagRequest(Tag, ret.ids))
                          ELSE remoteTags
       /\ IF TagOK(r) THEN Exit(0, "") ELSE Exit(1, "tag")
  /\ UNCHANGED <<Tag, first, libVars, loginVars, fetchVars, deliverVars>>

(***************************************************************************)
(* zimbra.extractFormInfo, formInfo and formInputs, run on a response on   *)
(* their own.                                                              *)
(***************************************************************************)
\* the variables of the pipeline, which these functions leave alone
pipeVars ==
  <<pc, exitCode, failed, Tag, loginVars, fetchVars, deliverVars, markVars,
    first>>

\* the pipeline has not started and has no tag configured
PipelineIdle ==
  /\ Fresh
  /\ Tag = ""
  /\ remoteTags = {}
  /\ first = NoFirst

\* strings.ToUpper, on the letters the method attributes are written with
ToUpperChar(c) ==
  CASE c = "p" -> "P"
    [] c = "o" -> "O"
    [] c = "s" -> "S"
    [] c = "t" -> "T"
    [] c = "g" -> "G"
    [] c = "e" -> "E"
    [] OTHER -> c

\* ToUpper leaving the text as it is: a faulty variant
ToUpperNone(s) == s

ToUpper(s) == [i \in 1..Len(s) |-> ToUpperChar(s[i])]

\* inputs.Add(name, value) on url.Values v: the value goes after the
\* values the name already has
Add(v, name, value) ==
  IF name \in DOMAIN v
    THEN [v EXCEPT ![name] = Append(@, value)]
    ELSE v @@ (name :> <<value>>)

\* AddInput taking a hidden or submit input whatever its value: a faulty
\* variant
AddInputAnyValue(n, v) ==
  LET typ == IF n.typ = "absent" THEN "text" ELSE n.typ IN
    IF typ \in {"submit", "hidden"} /\ n.name # ""
      THEN Add(v, n.name, n.value)
    ELSE IF typ = "text" /\ n.name = "username"
      THEN Add(v, "username", Username)
    ELSE IF typ = "password" /\ n.name = "password"
      THEN Add(v, "password", Password)
    ELSE v

\* what formInputs does with the input element n: typ defaults to text;
\* submit and hidden are added with a name and a value, text when named
\* username, password when named password, everything else is ignored
AddInput(n, v) ==
  LET typ == IF n.typ = "absent" THEN "text" ELSE n.typ IN
    IF typ \in {"submit", "hidden"} /\ n.name # "" /\ n.value # ""
      THEN Add(v, n.name, n.value)
    ELSE IF typ = "text" /\ n.name = "username"
      THEN Add(v, "username", Username)
    ELSE IF typ = "password" /\ n.name = "password"
      THEN Add(v, "password", Password)
    ELSE v

\* formInputs(n, inputs): n itself, then its children in order
RECURSIVE FormInputs(_, _), FormInputsKids(_, _, _)
FormInputs(n, v) ==
  FormInputsKids(n.kids, 1,
                 IF n.ntype = "element" /\ n.data = "input"
                   THEN AddInput(n, v)
                   ELSE v)

\* the loop of formInputs over the children from the i-th on
FormInputsKids(ks, i, v) ==
  IF i > Len(ks) THEN v
  ELSE FormInputsKids(ks, i + 1, FormInputs(ks[i], v))

\* formInfo(n): n when it is a form with method POST, else the first
\* child, in order, in which formInfo finds one
RECURSIVE FormInfo(_), FormInfoKids(_, _)
FormInfo(n) ==
  IF n.ntype = "element" /\ n.data = "form" /\ ToUpper(n.method) = MethodPOST
    THEN [action |-> n.action, inputs |-> FormInputs(n, NoValues), err |-> FALSE]
    ELSE FormInfoKids(n.kids, 1)

\* the loop of formInfo over the children from the i-th on
FormInfoKids(ks, i) ==
  IF i > Len(ks) THEN NotFound
  ELSE LET r == FormInfo(ks[i]) IN
         IF ~r.err THEN r ELSE FormInfoKids(ks, i + 1)

\* the values extractFormInfo returns for the response p: the error of
\* formInfo, the error of url.Parse, or the action resolved against the
\* URL of the response
ExtractResult(p) ==
  LET f == FormInfo(p.doc) IN
    IF f.err
      THEN [url |-> [host |-> "", path |-> ""], inputs |-> f.inputs,
            err |-> TRUE, form |-> f, returned |-> TRUE]
    ELSE IF f.action.kind = "bad"
      THEN [url |-> [host |-> "", path |-> ""], inputs |-> f.inputs,
            err |-> TRUE, form |-> f, returned |-> TRUE]
    ELSE [url |-> ResolveReference(p.url, f.action), inputs |-> f.inputs,
          err |-> FALSE, form |-> f, returned |-> TRUE]

\* extractFormInfo(resp)
ExtractFormInfo ==
  /\ page # NoPage
  /\ ~extracted.returned
  /\ extracted' = ExtractResult(page)
  /\ UNCHANGED <<pipeVars, page, maildirVars>>

(***************************************************************************)
(* Package maildir, run on its own on the maildir that Open returned.      *)
(* Paths are sequences of elements; an element is a sequence of            *)
(* characters, so that AddFolder's string concatenation is computed.       *)
(***************************************************************************)
\* filepath.Join(p, elem) for an elem without separator: the cleaned path
\* has no "." element, and ".." takes the last element away
PathJoin(p, elem) ==
  IF elem = <<".">> THEN p
  ELSE IF elem = <<".", ".">> THEN SubSeq(p, 1, Len(p) - 1)
  ELSE Append(p, elem)

\* the path AddFolder gives the folder: joined to the path of a top-level
\* maildir (parent == nil), appended to the text of the path of a folder
FolderPath(md, folder) ==
  IF md.names = <<>>
    THEN PathJoin(md.path, <<".">> \o folder)
    ELSE [md.path EXCEPT ![Len(md.path)] = @ \o <<".">> \o folder]

\* a file exists at path p
Exists(p) == \E f \in files : f.path = p

\* the directory of a path
Dir(p) == SubSeq(p, 1, Len(p) - 1)

\* the directories AddFolder makes for a folder at path p, in its order
FolderDirs(p) == <<p, Append(p, Tmp), Append(p, New), Append(p, Cur)>>

\* md.AddFolder(folder): os.Mkdir of the folder and of tmp, new and cur,
\* each allowed to exist already, then the maildirfolder file; done steps
\* are made before the first error, 5 steps is the call without error; a
\* Mkdir whose parent directory is missing always fails, and no step fails
\* on what exists already
AddFolder ==
  /\ folderCalls < MaxFolderCalls
  /\ am.pc = "idle"
  /\ \E md \in mds, folder \in FolderNames, done \in 0..5 :
       LET path == FolderPath(md, folder) IN
         /\ done >= 1 => Dir(path) \in dirs
         /\ done < 4 => FolderDirs(path)[done + 1] \notin dirs
         /\ done = 4 => ~Exists(Append(path, Sentinel))
         /\ dirs' = dirs \cup { FolderDirs(path)[i] : i \in 1..(IF done < 4 THEN done ELSE 4) }
         /\ files' = IF done = 5 /\ ~Exists(Append(path, Sentinel))
                       THEN files \cup {[path |-> Append(path, Sentinel), content |-> <<>>]}
                       ELSE files
         /\ mds' = IF done = 5
                     THEN mds \cup {[path |-> path, names |-> Append(md.names, folder)]}
                     ELSE mds
         /\ folderRet' = [md |-> md, folder |-> folder, path |-> path,
                          err |-> done < 5, returned |-> TRUE]
  /\ folderCalls' = folderCalls + 1
  /\ UNCHANGED <<pipeVars, formVars, am, mailCalls, linked>>

\* the files in new of the top-level maildir
NewFiles == { f \in files : Len(f.path) = 3 /\ f.path[1] = Top /\ f.path[2] = New }

\* the path of the temporary file of the call
TmpPath == <<Top, Tmp, am.tmp>>

\* md.AddMail(r) is called with a message stream
AddMailCall ==
  /\ am.pc = "idle"
  /\ mailCalls < MaxMails
  /\ mailCalls' = mailCalls + 1
  /\ \E msg \in Messages :
       am' = [pc |-> "create", msg |-> msg, rest |-> msg, tmp |-> <<>>,
              before |-> NewFiles, err |-> FALSE, returned |-> FALSE]
  /\ UNCHANGED <<pipeVars, formVars, dirs, files, mds, folderRet, folderCalls, linked>>

\* os.CreateTemp in tmp: an empty file under a name not in use there, and
\* its removal is deferred; or an error, which AddMail returns
CreateTemp ==
  /\ am.pc = "create"
  /\ \/ \E n \in TmpNames :
          /\ ~Exists(<<Top, Tmp, n>>)
          /\ files' = files \cup {[path |-> <<Top, Tmp, n>>, content |-> <<>>]}
          /\ am' = [am EXCEPT !.pc = "copy", !.tmp = n]
     \/ /\ am' = [am EXCEPT !.pc = "idle", !.err = TRUE, !.returned = TRUE]
        /\ UNCHANGED files
  /\ UNCHANGED <<pipeVars, formVars, dirs, mds, folderRet, folderCalls, mailCalls, linked>>

\* Write putting the bytes at the start of the file: a faulty variant
WriteAtStart(content, b) == <<b>>

\* tmp.Write: the bytes go after those the file has
Write(content, b) == Append(content, b)

\* AtEOF taking any read for the last: a faulty variant
AtEOFEarly(rest) == TRUE

\* io.Copy ends without error when the reader has nothing left
AtEOF(rest) == rest = <<>>

\* one turn of io.Copy(tmp, r): the end of the stream, the next byte
\* written to the temporary file, or an error of the read or the write
CopyStep ==
  /\ am.pc = "copy"
  /\ IF AtEOF(am.rest)
       THEN /\ am' = [am EXCEPT !.pc = "link"]
            /\ UNCHANGED files
       ELSE \/ /\ files' = { IF f.path = TmpPath
                                 THEN [f EXCEPT !.content = Write(@, Head(am.rest))]
                                 ELSE f : f \in files }
               /\ am' = [am EXCEPT !.rest = Tail(@)]
            \/ /\ am' = [am EXCEPT !.pc = "return", !.err = TRUE]
               /\ UNCHANGED files
  /\ UNCHANGED <<pipeVars, formVars, dirs, mds, folderRet, folderCalls, mailCalls, linked>>

\* os.Link(tmp.Name(), new/filename): the file of the temporary name gets
\* a second name in new; an error when that name is in use, or any other
LinkStep ==
  /\ am.pc = "link"
  /\ \/ /\ ~Exists(<<Top, New, am.tmp>>)
        /\ files' = files \cup
             { [path |-> <<Top, New, am.tmp>>, content |-> f.content] :
                 f \in { g \in files : g.path = TmpPath } }
        /\ linked' = linked \cup {[path |-> <<Top, New, am.tmp>>, msg |-> am.msg]}
        /\ am' = [am EXCEPT !.pc = "return"]
     \/ /\ am' = [am EXCEPT !.pc = "return", !.err = TRUE]
        /\ UNCHANGED <<files, linked>>
  /\ UNCHANGED <<pipeVars, formVars, dirs, mds, folderRet, folderCalls, mailCalls>>

\* RemoveTmp leaving the temporary file when AddMail returns an error: a
\* faulty variant
RemoveTmpOnSuccess ==
  /\ am.pc = "return"
  /\ files' = IF am.err THEN files ELSE { f \in files : f.path # TmpPath }
  /\ am' = [am EXCEPT !.pc = "idle", !.returned = TRUE]
  /\ UNCHANGED <<pipeVars, formVars, dirs, mds, folderRet, folderCalls, mailCalls, linked>>

\* AddMail returns: the deferred os.Remove(tmp.Name()) runs
RemoveTmp ==
  /\ am.pc = "return"
  /\ files' = { f \in files : f.path # TmpPath }
  /\ am' = [am EXCEPT !.pc = "idle", !.returned = TRUE]
  /\ UNCHANGED <<pipeVars, formVars, dirs, mds, folderRet, folderCalls, mailCalls, linked>>

(***************************************************************************)
(* The next run of the program: the operator invokes it again with the     *)
(* same configuration; only the remote store keeps its state.              *)
(***************************************************************************)
NextRun ==
  /\ pc = "exit"
  /\ pc' = "login"
  /\ exitCode' = -1
  /\ failed' = ""
  /\ resp' = NetErr
  /\ trips' = 0
  /\ firstTarget' = 0
  /\ visited' = {}
  /\ repeated' = FALSE
  /\ fetchReq' = <<>>
  /\ fetchResp' = NetErr
  /\ archive' = "unset"
  /\ lmtpOpen' = FALSE
  /\ hdr' = NoEntry
  /\ consumed' = <<>>
  /\ ids' = <<>>
  /\ ret' = NoRet
  /\ lmtp' = <<>>
  /\ tagReqs' = <<>>
  /\ tagResp' = NoResp
  /\ UNCHANGED <<Tag, first, libVars, remoteTags>>

(***************************************************************************)
(* Specifications: one run, and any number of runs one after the other.    *)
(***************************************************************************)
Next ==
  \/ LoginGet
  \/ LoginStep
  \/ LoginReturn
  \/ FetchArchive
  \/ Gunzip
  \/ Dial
  \/ TarNext
  \/ Mail
  \/ Rcpt
  \/ Data
  \/ CopyClose
  \/ Reset
  \/ TagMails

Spec == Init /\ [][Next]_vars

NextRuns == Next \/ NextRun

SpecRuns == Init /\ [][NextRuns]_vars

\* main at its call of deliverMails, after one login round trip, a fetch
\* that answered with an archive, and the dial
InitDeliver ==
  /\ pc = "next"
  /\ exitCode = -1
  /\ failed = ""
  /\ Tag \in TagValues
  /\ resp = [url |-> StartURL, status |-> 200, ct |-> CtHtml]
  /\ trips = 1
  /\ firstTarget = 1
  /\ visited = {}
  /\ repeated = FALSE
  /\ fetchReq = <<FetchQuery(Tag)>>
  /\ fetchResp = [url |-> StartURL, status |-> 200, ct |-> CompressedTar]
  /\ archive = "stream"
  /\ lmtpOpen = TRUE
  /\ hdr = NoEntry
  /\ consumed = <<>>
  /\ ids = <<>>
  /\ ret = NoRet
  /\ lmtp = <<>>
  /\ tagReqs = <<>>
  /\ tagResp = NoResp
  /\ remoteTags = {}
  /\ first = NoFirst
  /\ LibIdle

NextTwice ==
  \/ TarNextFirst
  \/ TarNextAgain
  \/ Mail
  \/ Rcpt
  \/ Data
  \/ CopyClose
  \/ Reset
  \/ Again

SpecTwice == InitDeliver /\ [][NextTwice]_vars

\* extractFormInfo about to be called on a response
InitForm ==
  /\ PipelineIdle
  /\ MaildirOpened
  /\ page \in Pages
  /\ extracted = NoExtract

NextForm == ExtractFormInfo

SpecForm == InitForm /\ [][NextForm]_vars

\* the maildir as Open returned it, before any call of AddFolder or AddMail
InitMaildir ==
  /\ PipelineIdle
  /\ FormIdle
  /\ MaildirOpened

NextFolder == AddFolder

SpecFolder == InitMaildir /\ [][NextFolder]_vars

NextMail ==
  \/ AddMailCall
  \/ CreateTemp
  \/ CopyStep
  \/ LinkStep
  \/ RemoveTmp

SpecMail == InitMaildir /\ [][NextMail]_vars

(***************************************************************************)
(* Properties.                                                             *)
(***************************************************************************)
\* deliverMails returned without error, after the end of the archive
DeliveredAll ==
  /\ ret.returned
  /\ ~ret.err
  /\ hdr = NoEntry
  /\ lmtp # <<>> => (lmtp[Len(lmtp)].cmd = "RSET" /\ lmtp[Len(lmtp)].ok)

\* C1: a marking request exists only once deliverMails has returned
\* successfully for the whole archive: never before or during delivery, and
\* never after a delivery that returned an error.
C1_MarkOnlyAfterDelivery ==
  /\ tagReqs # <<>> => DeliveredAll
  /\ pc \in {"login", "loginLoop", "fetch", "gunzip", "dial", "next", "mail",
             "rcpt", "data", "copy", "reset"} => tagReqs = <<>>
  /\ failed = "deliver" => tagReqs = <<>>

\* a marking request was sent for a run that delivered two messages
C1_Witness ==
  /\ Len(tagReqs) = 1
  /\ Len(ret.ids) = 2
  /\ Len(lmtp) > 0

\* C2: when delivery fails on the k-th qualifying entry, deliverMails returns
\* an error and no ids, the run exits with code 1 and no marking request is
\* made, whatever was already handed to the sink.
C2_FailureDiscardsIds ==
  (ret.returned /\ ret.err) =>
    /\ ret.ids = <<>>
    /\ pc = "exit"
    /\ exitCode = 1
    /\ failed = "deliver"
    /\ tagReqs = <<>>
    /\ remoteTags = {}

\* the third entry fails after two messages were delivered and their ids
\* accumulated
C2_Witness ==
  /\ ret.returned
  /\ ret.err
  /\ hdr # NoEntry
  /\ Len(ids) = 2
  /\ Len(consumed) = 3
  /\ Tag # ""
  /\ \E i \in 1..Len(lmtp) : lmtp[i].cmd = "RSET" /\ lmtp[i].ok

\* C3: a 204 answer to the archive request makes FetchArchive return an
\* absent stream without error, and the run ends with exit code 0, nothing
\* handed to the sink, no LMTP connection and no marking request.
C3_NothingNew ==
  (fetchReq # <<>> /\ fetchResp.status = 204) =>
    /\ archive = "nil"
    /\ pc = "exit"
    /\ exitCode = 0
    /\ failed = ""
    /\ ~lmtpOpen
    /\ lmtp = <<>>
    /\ consumed = <<>>
    /\ ~ret.returned
    /\ tagReqs = <<>>

\* a tagging run whose archive request was answered 204
C3_Witness ==
  /\ fetchReq # <<>>
  /\ fetchResp.status = 204
  /\ Tag # ""
  /\ pc = "exit"

\* the run ended with a marking request that the remote store carried out
Marked ==
  /\ pc = "exit"
  /\ exitCode = 0
  /\ tagReqs # <<>>

\* C4: with a tag configured, a successful run leaves every delivered id
\* tagged with that tag on the remote store, the archive request of every
\* run excludes the messages carrying that same tag, and so no message the
\* store holds as tagged is fetched or delivered by a later run.
C4_MarkedNotRefetched ==
  Tag # "" =>
    /\ Marked => \A i \in 1..Len(ret.ids) : <<ret.ids[i], Tag>> \in remoteTags
    /\ fetchReq # <<>> => fetchReq[1] = [notTag |-> Tag]
    /\ ~Marked =>
         /\ \A i \in 1..Len(consumed) :
              consumed[i].mid # <<>> => <<consumed[i].mid, Tag>> \notin remoteTags
         /\ \A i \in 1..Len(lmtp) :
              lmtp[i].cmd = "BODY" =>
                \A e \in Entries :
                  e.body = lmtp[i].arg => <<e.mid, Tag>> \notin remoteTags

\* a later run delivers message 7 while message 123 is tagged on the store
C4_Witness ==
  /\ <<(<<"1", "2", "3">>), Tag>> \in remoteTags
  /\ pc = "copy"
  /\ hdr.name = NameMail2
  /\ Len(consumed) = 1

\* C5: Login returns success only when the most recent response is on the
\* target host; while the most recent response is on another host Login
\* stays in its loop, where it either makes one more request or fails on
\* the form extraction.
C5_ReturnOnlyOnTarget ==
  /\ []((pc \notin {"login", "loginLoop"} /\ failed # "login") =>
          resp.url.host = TargetHost)
  /\ [][(pc = "loginLoop" /\ resp.url.host # TargetHost) =>
          \/ pc' = "loginLoop" /\ trips' = trips + 1
          \/ pc' = "exit" /\ failed' = "login"]_vars

\* Login returned success after three round trips
C5_Witness ==
  /\ pc = "fetch"
  /\ trips = 3
  /\ resp.url.host = TargetHost

\* C6: once a response has come from the target host no further request is
\* made: when the j-th response is the first on the target host Login makes
\* exactly j round trips, and exactly one, without any POST, when the first
\* GET already lands there.
C6_ExactRoundTrips ==
  /\ firstTarget # 0 => trips = firstTarget
  /\ (pc \notin {"login", "loginLoop"} /\ failed # "login") =>
       (trips >= 1 /\ firstTarget = trips)
  /\ firstTarget = 1 => visited \subseteq {StartURL}

\* a chain that could take three steps ends after the second, whose response
\* is on the target host
C6_Witness ==
  /\ MaxSteps >= 3
  /\ pc = "fetch"
  /\ firstTarget = 2
  /\ trips = 2

\* C7: a login step whose submit URL was already requested in the same
\* login is a fatal error.
C7_RepeatedURLFatal ==
  repeated => (pc = "exit" /\ failed = "login")

\* C8: a login response that has not status 200, or whose content-type is
\* not text/html, makes Login fail at once, whatever its host, and nothing
\* is requested afterwards.
C8_BadResponseFails ==
  (trips >= 1 /\ (resp.status # 200 \/ resp.ct = <<>> \/ resp.ct[1] # "text/html")) =>
    /\ pc = "exit"
    /\ exitCode = 1
    /\ failed = "login"
    /\ fetchReq = <<>>
    /\ tagReqs = <<>>

\* the response to a POST is on the target host but is no HTML page
C8_Witness ==
  /\ trips = 2
  /\ resp.url.host = TargetHost
  /\ resp.status = 200
  /\ resp.ct = CtJson

\* C9: FetchArchive sends one request and has three outcomes: an absent
\* stream without error for status 204, the stream for status 200 with
\* content-type application/x-compressed-tar, an error and no stream for
\* every other response and for a transport error.
C9_FetchOutcomes ==
  /\ Len(fetchReq) <= 1
  /\ pc \in {"gunzip", "dial", "next", "mail", "rcpt", "data", "copy", "reset", "tag"} =>
       Len(fetchReq) = 1
  /\ (fetchReq = <<>>) => (archive = "unset" /\ failed # "fetch")
  /\ (fetchReq # <<>>) =>
       IF fetchResp.status = 204
         THEN archive = "nil" /\ failed # "fetch"
       ELSE IF /\ fetchResp.status = 200
               /\ fetchResp.ct # <<>>
               /\ fetchResp.ct[1] = "application/x-compressed-tar"
         THEN archive = "stream" /\ failed # "fetch"
       ELSE archive = "nil" /\ failed = "fetch" /\ pc = "exit" /\ exitCode = 1

\* status 200 with an HTML body is an error
C9_Witness ==
  /\ fetchReq # <<>>
  /\ fetchResp.status = 200
  /\ fetchResp.ct = CtHtml
  /\ failed = "fetch"

\* the position at which the last path segment of name starts
C10_FileStart(name) ==
  CHOOSE s \in 1..(Len(name) + 1) :
    /\ s = 1 \/ name[s - 1] = "/"
    /\ \A j \in s..Len(name) : name[j] # "/"

\* id is the text of the last path segment of name before its first '-',
\* without its leading zeros
C10_IsIdOf(id, name) ==
  LET s == C10_FileStart(name) IN
    \E d \in s..Len(name) :
      /\ name[d] = "-"
      /\ \A j \in s..(d - 1) : name[j] # "-"
      /\ \E z \in 0..(d - s) :
           /\ \A j \in s..(s + z - 1) : name[j] = "0"
           /\ id = SubSeq(name, s + z, d - 1)
           /\ id = <<>> \/ id[1] # "0"

\* C10: for a delivered entry whose file name has a '-', the id appended is
\* the text of the last path segment before its first '-' without leading
\* zeros; it is the same for entries that differ only in folder and content
\* (a/b/000123-x.eml and c/000123-x.eml both give 123).
C10_IdFromLastSegment ==
  [][(/\ pc = "reset"
      /\ pc' = "next"
      /\ \E j \in C10_FileStart(hdr.name)..Len(hdr.name) : hdr.name[j] = "-")
     =>
     /\ Len(ids') = Len(ids) + 1
     /\ SubSeq(ids', 1, Len(ids)) = ids
     /\ C10_IsIdOf(ids'[Len(ids')], hdr.name)
     /\ hdr.name \in {NameMail1, NameMail1Other} =>
          ids'[Len(ids')] = <<"1", "2", "3">>]_vars

\* two entries with the same file name in different folders and with
\* different content both gave 123
C10_Witness ==
  /\ Len(consumed) = 2
  /\ consumed[1].name = NameMail1
  /\ consumed[2].name = NameMail1Other
  /\ consumed[1].body # consumed[2].body
  /\ ids = << <<"1", "2", "3">>, <<"1", "2", "3">> >>

\* the file name (last path segment) of name has no '-'
C11_NoDash(name) ==
  \A j \in C10_FileStart(name)..Len(name) : name[j] # "-"

\* e is a regular file whose name ends in .eml
C11_IsMail(e) ==
  /\ e.typeflag = "0"
  /\ Len(e.name) >= 4
  /\ SubSeq(e.name, Len(e.name) - 3, Len(e.name)) = <<".", "e", "m", "l">>

\* C11: a regular .eml entry whose file name has no '-' is a soft failure:
\* the step that finishes it adds no id, does not make deliverMails return
\* and leaves the loop at its next entry; and whenever the loop is at its
\* next entry, the ids accumulated are as many as the regular .eml entries
\* with a '-' read so far, those after an entry without '-' included.
C11_NoDashIsSoft ==
  /\ [][(/\ pc = "reset"
         /\ C11_NoDash(hdr.name)
         /\ lmtp' = Append(lmtp, [cmd |-> "RSET", arg |-> "", ok |-> TRUE]))
        =>
        /\ ids' = ids
        /\ pc' = "next"
        /\ ret' = NoRet
        /\ exitCode' = -1
        /\ failed' = ""]_vars
  /\ [](pc = "next" =>
          Len(ids) = Cardinality({ i \in 1..Len(consumed) :
                                    /\ C11_IsMail(consumed[i])
                                    /\ ~C11_NoDash(consumed[i].name) }))

\* a/b/abc.eml was read first and a/07-y-z.eml after it; deliverMails
\* returned without error and with the id of the second
C11_Witness ==
  /\ Len(consumed) = 2
  /\ consumed[1].name = NameNoDash
  /\ consumed[2].name = NameMail2
  /\ ret.returned
  /\ ~ret.err
  /\ ret.ids = << <<"7">> >>

\* C12: a regular .eml entry whose file name has no '-' is skipped before
\* it is delivered: the LMTP server never receives the body of such an
\* entry.
C12_NoDashNeverSent ==
  \A i \in 1..Len(lmtp) :
    lmtp[i].cmd = "BODY" =>
      \A e \in Entries :
        (C11_IsMail(e) /\ C11_NoDash(e.name)) => lmtp[i].arg # e.body

\* e is a regular .eml entry with a '-' in its file name
C13_GivesId(e) == C11_IsMail(e) /\ ~C11_NoDash(e.name)

\* C13: on success the ids returned are, in the order the archive yielded
\* its entries, the ids of the regular .eml entries with a '-' in their file
\* name: as many as there are such entries, the i-th id that of the i-th of
\* them, an id two entries share being returned twice.
C13_OrderedIds ==
  (ret.returned /\ ~ret.err) =>
    LET q == SelectSeq(consumed, C13_GivesId) IN
      /\ Len(ret.ids) = Len(q)
      /\ \A i \in 1..Len(q) : C10_IsIdOf(ret.ids[i], q[i].name)

\* three entries were read, the last two sharing the id 123; all three ids
\* were returned in the order read
C13_Witness ==
  /\ Len(consumed) = 3
  /\ consumed[1].name = NameMail2
  /\ consumed[2].name = NameMail1
  /\ consumed[3].name = NameMail1Other
  /\ ret.returned
  /\ ~ret.err
  /\ ret.ids = << <<"7">>, <<"1", "2", "3">>, <<"1", "2", "3">> >>

\* C14: a second call of deliverMails on the archive the first call read,
\* when it succeeds, has read the same entries and returns the same ids in
\* the same order as the first, whatever the first call left behind.
C14_SameIdsTwice ==
  (first.called /\ ret.returned /\ ~ret.err) =>
    /\ consumed = first.archive
    /\ ret.ids = first.ids

\* both calls succeeded on an archive that gives two ids, with a server
\* that accepted every command and every message
C14_Witness ==
  /\ first.called
  /\ ret.returned
  /\ ~ret.err
  /\ Len(first.ids) = 2
  /\ Len(lmtp) = 24
  /\ \A i \in 1..Len(lmtp) : lmtp[i].ok /\ lmtp[i].arg # "550"

\* C15: the LMTP server is handed exactly the regular files whose name ends
\* in .eml: every body it receives is that of such an entry read from the
\* archive, each such entry read has had its MAIL command sent once the
\* loop is past that call, and reading any other entry (a directory, a
\* file with another extension) sends nothing, adds no id and does not make
\* deliverMails return.
C15_OnlyMailsHandedOver ==
  /\ [](/\ \A i \in 1..Len(lmtp) :
             lmtp[i].cmd = "BODY" =>
               \E j \in 1..Len(consumed) :
                 C11_IsMail(consumed[j]) /\ consumed[j].body = lmtp[i].arg
        /\ Cardinality({ i \in 1..Len(lmtp) : lmtp[i].cmd = "MAIL" })
             = Cardinality({ j \in 1..Len(consumed) : C11_IsMail(consumed[j]) })
               - (IF pc = "mail" THEN 1 ELSE 0)
        /\ hdr # NoEntry => C11_IsMail(hdr))
  /\ [][(/\ Len(consumed') = Len(consumed) + 1
         /\ ~C11_IsMail(consumed'[Len(consumed')]))
        =>
        /\ pc' = "next"
        /\ UNCHANGED <<ids, lmtp, ret, exitCode, failed>>]_vars

\* a directory, a .meta file and a mail were read; only the mail reached
\* the server, and deliverMails returned its id without error
C15_Witness ==
  /\ Len(consumed) = 3
  /\ consumed[1].name = NameDir
  /\ consumed[2].name = NameMeta
  /\ consumed[3].name = NameMail2
  /\ ret.returned
  /\ ~ret.err
  /\ ret.ids = << <<"7">> >>
  /\ Len(lmtp) = 6
  /\ lmtp[4] = [cmd |-> "BODY", arg |-> "m3", ok |-> TRUE]

\* the commands of one message, in order
C16_Commands == <<"MAIL", "RCPT", "DATA", "BODY", "END", "RSET">>

\* C16: the LMTP server receives, message after message, MAIL with an empty
\* sender, RCPT with the configured address, DATA, the body, the end of
\* data and RSET, in this order, no command of a message before the RSET of
\* the one before it; and a command that fails is the last command the
\* server receives.
C16_CommandSequence ==
  \A i \in 1..Len(lmtp) :
    /\ lmtp[i].cmd = C16_Commands[((i - 1) % 6) + 1]
    /\ lmtp[i].cmd = "MAIL" => lmtp[i].arg = ""
    /\ lmtp[i].cmd = "RCPT" => lmtp[i].arg = "e-user@etu.cyu.fr"
    /\ ~lmtp[i].ok => i = Len(lmtp)

\* C17: the status the server gives for the recipient at the end of data,
\* error or not, does not end deliverMails: the loop goes on to RSET and to
\* the next entry; when deliverMails returns an error from one of the
\* LMTP steps, a command of that step failed.
C17_StatusOnlyLogged ==
  /\ [][(/\ pc = "copy"
         /\ Len(lmtp') = Len(lmtp) + 2
         /\ lmtp'[Len(lmtp') - 1].ok
         /\ lmtp'[Len(lmtp')].ok)
        =>
        /\ pc' = "reset"
        /\ ret' = NoRet
        /\ exitCode' = -1
        /\ failed' = ""]_vars
  /\ [][(pc \in {"mail", "rcpt", "data", "copy", "reset"} /\ ret'.err)
        =>
        \E i \in (Len(lmtp) + 1)..Len(lmtp') : ~lmtp'[i].ok]_vars

\* the server refused the first message for its recipient (550) and the
\* second was still delivered; deliverMails returned both ids without error
C17_Witness ==
  /\ Len(lmtp) = 12
  /\ lmtp[5] = [cmd |-> "END", arg |-> "550", ok |-> TRUE]
  /\ lmtp[10].cmd = "BODY"
  /\ ret.returned
  /\ ~ret.err
  /\ Len(ret.ids) = 2

\* C18: with a tag configured and deliverMails returned without error, the
\* run sends exactly one marking request, also when no id was returned; its
\* tag is the configured one and its id field splits at ',' into the ids
\* returned, in their order; the run ends with exit code 0 exactly when the
\* response has status 200, and with exit code 1 at the marking stage on
\* any other status or a transport error.
C18_OneMarkingRequest ==
  /\ Len(tagReqs) <= 1
  /\ (pc = "exit" /\ ret.returned /\ ~ret.err /\ Tag # "") => Len(tagReqs) = 1
  /\ tagReqs # <<>> =>
       /\ ret.returned /\ ~ret.err /\ Tag # ""
       /\ tagReqs[1].tn = Tag
       /\ IF ret.ids = <<>> THEN tagReqs[1].id = <<>>
          ELSE Split(tagReqs[1].id, ",") = ret.ids
       /\ pc = "exit"
       /\ exitCode = 0 <=> tagResp.status = 200
       /\ tagResp.status # 200 => (exitCode = 1 /\ failed = "tag")

\* the ids 7 and 123 were delivered and sent as "7,123" in one request,
\* which was answered with status 200
C18_Witness ==
  /\ ret.ids = << <<"7">>, <<"1", "2", "3">> >>
  /\ Len(tagReqs) = 1
  /\ tagReqs[1].id = <<"7", ",", "1", "2", "3">>
  /\ tagResp.status = 200
  /\ exitCode = 0

\* the stage a position of main belongs to, in the order of the pipeline
C19_Stage(p) ==
  CASE p \in {"login", "loginLoop"} -> 1
    [] p = "fetch" -> 2
    [] p \in {"gunzip", "dial", "next", "mail", "rcpt", "data", "copy", "reset"} -> 3
    [] p = "tag" -> 4
    [] p = "exit" -> 5

\* C19: main never goes back to an earlier stage and takes no step after
\* its exit; the fetch request is sent at most once and only after a login
\* that ended on the target host, delivery starts only with the archive
\* stream of a fetch answered 200, the marking request is sent at most once
\* and only after deliverMails returned without error; an error of a stage
\* ends the run with exit code 1, nothing of a later stage having happened.
C19_StagesInOrder ==
  /\ [][C19_Stage(pc') >= C19_Stage(pc) /\ pc # "exit"]_vars
  /\ [](/\ Len(fetchReq) <= 1
        /\ Len(tagReqs) <= 1
        /\ pc = "login" => trips = 0
        /\ fetchReq # <<>> =>
             (trips >= 1 /\ resp.url.host = "mail.etu.cyu.fr" /\ resp.status = 200)
        /\ (fetchReq # <<>> /\ (fetchResp.status = 0 \/ fetchResp.status = 404)) =>
             (pc = "exit" /\ failed = "fetch")
        /\ (pc \in {"gunzip", "dial"} \/ lmtpOpen \/ consumed # <<>> \/ lmtp # <<>>
              \/ ret.returned) =>
             (Len(fetchReq) = 1 /\ archive = "stream" /\ fetchResp.status = 200)
        /\ ret.err => (pc = "exit" /\ failed = "deliver")
        /\ tagReqs # <<>> => (ret.returned /\ ~ret.err)
        /\ failed # "" => (pc = "exit" /\ exitCode = 1)
        /\ failed = "login" => fetchReq = <<>>
        /\ failed \in {"login", "fetch", "gunzip", "dial"} =>
             (~lmtpOpen /\ consumed = <<>> /\ lmtp = <<>> /\ ~ret.returned)
        /\ failed \in {"login", "fetch", "gunzip", "dial", "deliver"} =>
             tagReqs = <<>>)

\* a run that went through all four stages: two login round trips, a fetch,
\* a delivery and a marking request, ending with exit code 0
C19_Witness ==
  /\ pc = "exit"
  /\ exitCode = 0
  /\ trips = 2
  /\ Len(fetchReq) = 1
  /\ Len(lmtp) = 6
  /\ Len(tagReqs) = 1

\* the folder path of an entry name: its path segments except the last
C20_Folders(name) ==
  IF C10_FileStart(name) = 1 THEN <<>>
  ELSE Split(SubSeq(name, 1, C10_FileStart(name) - 2), "/")

\* C20: every message the sink has received was delivered into the folder
\* named by the path segments of its entry except the last, each nested in
\* the one before (a/b/000123-x.eml into b inside a).
C20_DeliveredIntoFolder ==
  \A i \in 1..Len(lmtp) :
    (lmtp[i].cmd = "BODY" /\ lmtp[i].ok) =>
      \A e \in Entries :
        e.body = lmtp[i].arg => DeliveryFolder(e) = C20_Folders(e.name)

\* the nodes of a document in document order: a node, then its children
RECURSIVE C22_PreOrder(_), C22_PreOrderKids(_, _)
C22_PreOrder(n) == <<n>> \o C22_PreOrderKids(n.kids, 1)

C22_PreOrderKids(ks, i) ==
  IF i > Len(ks) THEN <<>>
  ELSE C22_PreOrder(ks[i]) \o C22_PreOrderKids(ks, i + 1)

\* m is POST in any mix of upper and lower case
C22_IsPost(m) ==
  /\ Len(m) = 4
  /\ m[1] \in {"p", "P"}
  /\ m[2] \in {"o", "O"}
  /\ m[3] \in {"s", "S"}
  /\ m[4] \in {"t", "T"}

\* the form elements of a document with method POST, in document order
C22_PostForms(d) ==
  SelectSeq(C22_PreOrder(d),
            LAMBDA n : n.ntype = "element" /\ n.data = "form" /\ C22_IsPost(n.method))

\* the form elements of a document whose action parses as a URL
C21_WellFormedForms(d) ==
  SelectSeq(C22_PreOrder(d),
            LAMBDA n : n.ntype = "element" /\ n.data = "form" /\ n.action.kind # "bad")

\* C21: for every document with at least one well-formed form, the
\* extraction succeeds and returns an absolute URL (one with a host).
C21_AnyFormSucceeds ==
  (extracted.returned /\ C21_WellFormedForms(page.doc) # <<>>) =>
    (~extracted.err /\ extracted.url.host # "")

\* C21, amended: for every document whose first form with method POST has
\* an action that parses as a URL (or none), the extraction succeeds and
\* returns an absolute URL: the action itself when it is absolute, the URL
\* of the response when the form has no action, else the path of the
\* action on the host of the response.
C21_PostFormSucceeds ==
  (/\ extracted.returned
   /\ C22_PostForms(page.doc) # <<>>
   /\ C22_PostForms(page.doc)[1].action.kind # "bad")
  =>
  LET a == C22_PostForms(page.doc)[1].action IN
    /\ ~extracted.err
    /\ extracted.url.host # ""
    /\ a.kind = "abs" => extracted.url = [host |-> a.host, path |-> a.path]
    /\ a.kind = "empty" => extracted.url = page.url
    /\ a.kind = "rel" => extracted.url = [host |-> page.url.host, path |-> a.path]

\* a page from the identity provider whose first POST form, after a form
\* without POST, has the relative action /sso: the URL returned is /sso on
\* the identity provider
C21_Witness ==
  /\ extracted.returned
  /\ ~extracted.err
  /\ page.url = [host |-> "idp.u-cergy.fr", path |-> "/sso"]
  /\ Len(page.doc.kids) = 2
  /\ page.doc.kids[1].method = MethodGet
  /\ page.doc.kids[2].method = MethodPost
  /\ page.doc.kids[2].action = [kind |-> "rel", host |-> "", path |-> "/sso"]
  /\ extracted.url = [host |-> "idp.u-cergy.fr", path |-> "/sso"]

\* C22: formInfo returns the first form element in document order whose
\* method is POST in any case, with its action and its fields, having
\* passed over the forms before it and looked into them; it fails exactly
\* when the document has no such form.
C22_FirstPostForm ==
  extracted.returned =>
    /\ extracted.form.err <=> C22_PostForms(page.doc) = <<>>
    /\ ~extracted.form.err =>
         /\ extracted.form.action = C22_PostForms(page.doc)[1].action
         /\ extracted.form.inputs = FormInputs(C22_PostForms(page.doc)[1], NoValues)

\* a form with method get holds a form with method POST, and a form with
\* method Post follows: the form found is the one inside the first
C22_Witness ==
  /\ extracted.returned
  /\ ~extracted.form.err
  /\ Len(page.doc.kids) = 2
  /\ page.doc.kids[1].method = MethodGet
  /\ Len(page.doc.kids[1].kids) = 2
  /\ page.doc.kids[1].kids[2].method = MethodPOST
  /\ page.doc.kids[2].method = MethodPost
  /\ page.doc.kids[2].action.kind = "abs"
  /\ extracted.form.action = [kind |-> "rel", host |-> "", path |-> "/sso"]
  /\ DOMAIN extracted.form.inputs = {"lt"}
  /\ extracted.form.inputs["lt"] = <<"tok2">>

\* the field the claim gives an input element: <<name, value>>, or <<>>
\* for none
C23_FieldAsClaimed(n) ==
  IF n.typ \in {"hidden", "submit"} /\ n.name # "" /\ n.value # ""
    THEN <<n.name, n.value>>
  ELSE IF n.typ \in {"text", "absent"} THEN <<"username", "e-user">>
  ELSE IF n.typ = "password" THEN <<"password", "secret">>
  ELSE <<>>

\* the same, with the name a text or password input must have
C23_FieldByName(n) ==
  IF n.typ \in {"hidden", "submit"} /\ n.name # "" /\ n.value # ""
    THEN <<n.name, n.value>>
  ELSE IF n.typ \in {"text", "absent"} /\ n.name = "username"
    THEN <<"username", "e-user">>
  ELSE IF n.typ = "password" /\ n.name = "password"
    THEN <<"password", "secret">>
  ELSE <<>>

\* the fields returned are those F gives the input elements of the chosen
\* form: the names are the names of these fields, and the values of a name
\* are the values of its fields in document order
C23_FieldsAre(F(_)) ==
  (extracted.returned /\ ~extracted.form.err) =>
    LET ins == SelectSeq(C22_PreOrder(C22_PostForms(page.doc)[1]),
                         LAMBDA n : n.ntype = "element" /\ n.data = "input")
        fs == SelectSeq([i \in 1..Len(ins) |-> F(ins[i])], LAMBDA f : f # <<>>)
    IN  /\ DOMAIN extracted.form.inputs = { fs[i][1] : i \in 1..Len(fs) }
        /\ \A nm \in DOMAIN extracted.form.inputs :
             LET sel == SelectSeq(fs, LAMBDA f : f[1] = nm) IN
               /\ Len(extracted.form.inputs[nm]) = Len(sel)
               /\ \A i \in 1..Len(sel) : extracted.form.inputs[nm][i] = sel[i][2]

\* C23: the fields extracted from the chosen form are exactly: every hidden
\* or submit input with a name and a value, under its name with its value;
\* for every input of type text the field username with the configured
\* username; for every input of type password the field password with the
\* configured password; nothing for inputs of other types; in document
\* order.
C23_FieldsAsClaimed == C23_FieldsAre(C23_FieldAsClaimed)

\* C23, amended: as above, but a text input gives the field username only
\* when its name is username, and a password input the field password only
\* when its name is password; text and password inputs with other names
\* are dropped like the inputs of other types.
C23_FieldsByName == C23_FieldsAre(C23_FieldByName)

\* a form with a text input named q, which gave no field, before a text
\* input named username, which gave the configured username
C23_Witness ==
  /\ extracted.returned
  /\ ~extracted.form.err
  /\ Len(page.doc.kids) = 1
  /\ Len(page.doc.kids[1].kids) = 2
  /\ page.doc.kids[1].kids[1] = Input("text", "q", "terms")
  /\ page.doc.kids[1].kids[2] = Input("text", "username", "")
  /\ DOMAIN extracted.inputs = {"username"}
  /\ extracted.inputs["username"] = <<"e-user">>

\* C24: when AddMail has returned, with or without error, the temporary
\* file it created is gone and tmp holds no file; without error new holds
\* exactly one file more than when it was called, and with an error new
\* holds what it held then.
C24_TmpRemoved ==
  am.returned =>
    /\ \A f \in files : ~(Len(f.path) = 3 /\ f.path[2] = <<"t", "m", "p">>)
    /\ am.err => NewFiles = am.before
    /\ ~am.err =>
         \E f \in NewFiles : f \notin am.before /\ NewFiles = am.before \cup {f}

\* after a call that put a message in new, a second call created its
\* temporary file and failed: tmp is empty and new holds the one message
C24_Witness ==
  /\ am.returned
  /\ am.err
  /\ am.tmp # <<>>
  /\ mailCalls = 2
  /\ Cardinality(am.before) = 1
  /\ NewFiles = am.before

\* C25: when AddMail has returned without error, the file it put in new,
\* under the name of its temporary file, holds exactly the bytes of the
\* stream it was given, in their order.
C25_SameBytes ==
  (am.returned /\ ~am.err) =>
    \E f \in NewFiles :
      /\ f.path[3] = am.tmp
      /\ f \notin am.before
      /\ Len(f.content) = Len(am.msg)
      /\ \A i \in 1..Len(am.msg) : f.content[i] = am.msg[i]

\* the stream x y was delivered and the file in new holds x y
C25_Witness ==
  /\ am.returned
  /\ ~am.err
  /\ am.msg = <<"x", "y">>
  /\ \E f \in NewFiles : f.content = <<"x", "y">>

\* C26: in every state, between the steps of AddMail and after a call that
\* failed too, every file in new was put there by the link step and holds
\* the whole message of the call that linked it, never a part of it.
C26_NoPartialInNew ==
  /\ \A f \in NewFiles :
       \E l \in linked : l.path = f.path /\ l.msg = f.content
  /\ am.pc \in {"create", "copy", "link"} => NewFiles = am.before

\* a first message is in new, whole; the copy of a second one has written
\* one of its two bytes to the temporary file
C26_Witness ==
  /\ am.pc = "copy"
  /\ Len(am.msg) = 2
  /\ Len(am.rest) = 1
  /\ Cardinality(NewFiles) = 1
  /\ \E f \in files : f.path = TmpPath /\ Len(f.content) = 1

\* C27: the top-level directory never holds the maildirfolder file; every
\* folder AddFolder returned is a directory directly under the top-level
\* path, named '.' followed by the folder names from the top joined by
\* '.', and holds tmp, new, cur and the maildirfolder file; and a call of
\* AddFolder for a folder that exists already returns no error and changes
\* neither a directory nor a file.
C27_FolderLayout ==
  /\ [](/\ ~Exists(<<Top, Sentinel>>)
        /\ \A m \in mds :
             m.names # <<>> =>
               /\ Len(m.path) = 2
               /\ m.path[1] = Top
               /\ m.path[2] = <<".">> \o Join(m.names, ".")
               /\ {Append(m.path, Tmp), Append(m.path, New), Append(m.path, Cur)}
                    \subseteq dirs
               /\ Exists(Append(m.path, Sentinel)))
  /\ [][(/\ folderCalls' = folderCalls + 1
         /\ \E m \in mds : m.names # <<>> /\ m.path = folderRet'.path)
        =>
        (~folderRet'.err /\ dirs' = dirs /\ files' = files)]_vars

\* c is the end of the data of a message, with the status the server gave
C28_IsEnd(c) == c.cmd = "END"

\* C28: every id of the marking request is that of a message the server
\* accepted in this run: when a marking request has been sent, no message
\* that gave an id was answered with an error status for its recipient.
C28_OnlyAcceptedMarked ==
  tagReqs # <<>> =>
    LET mails == SelectSeq(consumed, C11_IsMail)
        ends == SelectSeq(lmtp, C28_IsEnd)
    IN  /\ Len(ends) = Len(mails)
        /\ \A k \in 1..Len(mails) :
             ~C11_NoDash(mails[k].name) => ends[k].arg = "250"

\* C29: every id deliverMails returns is a non-empty string that does not
\* begin with '0'.
C29_IdsNonEmpty ==
  (ret.returned /\ ~ret.err) =>
    \A k \in 1..Len(ret.ids) : ret.ids[k] # <<>> /\ ret.ids[k][1] # "0"

====
